---------------------------- MODULE Spec2Model ----------------------------
(***************************************************************************)
(* A model of the JSON recovery, keyword derivation and analysis workflow  *)
(* of startup_analyzer (src/app.py, src/utils.py, src/main.py).            *)
(*                                                                         *)
(* Texts are TLA+ strings; a character is a string of length one.  Indices *)
(* are Python's (0-based), and Slice(s, a, b) is Python's s[a:b].          *)
(* A TLA+ string holds neither a backtick nor a character outside ASCII.   *)
(* Five characters of the program's texts are therefore written with a     *)
(* stand-in, and the character each stand-in would otherwise be is not a   *)
(* character of the model (CharOf has no value for its code point):        *)
(*     ^  is the backtick U+0060, so a code fence is  ^^^  (FENCE);        *)
(*     #  %  &  @  are the Hangul syllables U+D655 U+C778 U+BD88 U+AC00    *)
(*     of the placeholder text (PLACEHOLDER).                              *)
(***************************************************************************)
EXTENDS Integers, Sequences, FiniteSets, TLC

(***************************************************************************)
(* Python str primitives                                                   *)
(***************************************************************************)

\* s[i:i+1]: the character at 0-based index i, "" past either end
At(s, i) == IF i >= 0 /\ i < Len(s) THEN SubSeq(s, i + 1, i + 1) ELSE ""

\* s[a:b] for 0 <= a
Slice(s, a, b) ==
    LET hi == IF b > Len(s) THEN Len(s) ELSE b
    IN  IF a >= hi THEN "" ELSE SubSeq(s, a + 1, hi)

\* the characters str.isspace / str.strip / str.split treat as whitespace

IsSpace(c) == c \in {" ", "\t", "\n", "\r", "\f"}

\* s.startswith(p, i)
StartsAt(s, p, i) == Slice(s, i, i + Len(p)) = p

\* the indices >= i at which p occurs in s
Occurrences(s, p, i) == {j \in i..(Len(s) - Len(p)) : StartsAt(s, p, j)}

\* s.find(p, i): lowest index >= i where p occurs, -1 when there is none
FindFrom(s, p, i) ==
    LET H == Occurrences(s, p, i)
    IN  IF H = {} THEN -1 ELSE CHOOSE j \in H : \A k \in H : j <= k

Find(s, p) == FindFrom(s, p, 0)

\* s.rfind(p): highest index where p occurs, -1 when there is none
RFind(s, p) ==
    LET H == Occurrences(s, p, 0)
    IN  IF H = {} THEN -1 ELSE CHOOSE j \in H : \A k \in H : j >= k

\* p in s
Contains(s, p) == Find(s, p) # -1

RECURSIVE ReplaceWith(_, _, _, _)
\* s[i:].replace(old, new): every non-overlapping occurrence, left to right
ReplaceWith(s, old, new, i) ==
    LET j == FindFrom(s, old, i)
    IN  IF j = -1 THEN Slice(s, i, Len(s))
        ELSE Slice(s, i, j) \o new \o ReplaceWith(s, old, new, j + Len(old))

\* s.replace(old, "")
Remove(s, old) == ReplaceWith(s, old, "", 0)

\* the indices of the characters of s that are not whitespace
NonSpace(s) == {i \in 0..(Len(s) - 1) : ~IsSpace(At(s, i))}

\* s.strip(): from the first character that is not whitespace to the last
Strip(s) ==
    LET N == NonSpace(s)
    IN  IF N = {} THEN ""
        ELSE Slice(s, CHOOSE i \in N : \A k \in N : i <= k,
                      (CHOOSE j \in N : \A k \in N : j >= k) + 1)

RECURSIVE ConcatRange(_, _, _)
ConcatRange(xs, lo, hi) ==
    IF lo > hi THEN ""
    ELSE IF lo = hi THEN xs[lo]
    ELSE LET mid == (lo + hi) \div 2
         IN  ConcatRange(xs, lo, mid) \o ConcatRange(xs, mid + 1, hi)

\* "".join(xs) for a sequence of strings xs
Concat(xs) == ConcatRange(xs, 1, Len(xs))

LowerChar(c) ==
    LET k == Find("ABCDEFGHIJKLMNOPQRSTUVWXYZ", c)
    IN  IF k = -1 THEN c ELSE At("abcdefghijklmnopqrstuvwxyz", k)

\* s.lower()
Lower(s) == Concat([i \in 1..Len(s) |-> LowerChar(At(s, i - 1))])

\* s.split(): the maximal runs of non-whitespace, in order.  A run starts at
\* a non-space with no non-space before it and ends before the next space.
Split(s) ==
    LET N == NonSpace(s)
        starts == {i \in N : i - 1 \notin N}
        EndOf(i) == CHOOSE j \in (i + 1)..Len(s) :
                        /\ j \notin N
                        /\ \A k \in i..(j - 1) : k \in N
        Nth(k) == CHOOSE i \in starts : Cardinality({j \in starts : j < i}) = k - 1
    IN  [k \in 1..Cardinality(starts) |-> Slice(s, Nth(k), EndOf(Nth(k)))]

\* sep.join(xs) for a sequence of strings xs
Join(sep, xs) ==
    Concat([i \in 1..(2 * Len(xs) - 1) |->
                IF i % 2 = 1 THEN xs[(i + 1) \div 2] ELSE sep])

(***************************************************************************)
(* JSON values.  A dict keeps its pairs in insertion order, keys distinct. *)
(***************************************************************************)

JNull == [t |-> "null"]
JBool(b) == [t |-> "bool", v |-> b]
JNum(n) == [t |-> "num", v |-> n]
JStr(s) == [t |-> "str", v |-> s]
JList(xs) == [t |-> "list", v |-> xs]
JObj(ps) == [t |-> "obj", v |-> ps]

RECURSIVE PairsGet(_, _, _)
PairsGet(ps, k, i) ==
    IF i > Len(ps) THEN [found |-> FALSE]
    ELSE IF ps[i][1] = k THEN [found |-> TRUE, val |-> ps[i][2]]
    ELSE PairsGet(ps, k, i + 1)

\* d.get(k, default)
DictGet(d, k, default) ==
    LET r == PairsGet(d.v, k, 1) IN IF r.found THEN r.val ELSE default

\* d[k] = v on the pairs of a dict: a key already present keeps its place
PairsPut(ps, k, v) ==
    IF \E i \in 1..Len(ps) : ps[i][1] = k
    THEN [i \in 1..Len(ps) |-> IF ps[i][1] = k THEN <<k, v>> ELSE ps[i]]
    ELSE Append(ps, <<k, v>>)

(***************************************************************************)
(* json.loads (the standard library's decoder, strict mode).  A result is  *)
(* [st, val, pos]: st = "ok" with the value and the index after it,        *)
(* st = "err" for a JSONDecodeError, and st = "uns" where the text holds a  *)
(* token whose value this model has no notation for (a float, NaN or       *)
(* Infinity, an escape of a character the model cannot write), so that the *)
(* model does not say what the decoder does.  No text the specifications   *)
(* draw is of the last kind (ModelCoversInputs).                           *)
(***************************************************************************)

\* ASCII 32..126 in code order, the backtick (code 96) written ^
ASCII ==
    " !\"#$%&'()*+,-./0123456789:;<=>?@ABCDEFGHIJKLMNOPQRSTUVWXYZ[\\]^_^abcdefghijklmnopqrstuvwxyz{|}~"

\* the code points of  ^ # % & @  themselves, which the stand-ins displace
Displaced == {94, 35, 37, 38, 64}

\* the control characters a TLA+ string can hold
ControlChars == {"\t", "\n", "\f", "\r"}

DIGITS == "0123456789"

IsDigit(c) == c # "" /\ Contains(DIGITS, c)

HexVal(c) ==
    IF c = "" THEN -1
    ELSE IF Contains("0123456789abcdef", c) THEN Find("0123456789abcdef", c)
    ELSE Find("0123456789ABCDEF", c)

Fail == [st |-> "err"]
Unsupported == [st |-> "uns"]
Ok(v, p) == [st |-> "ok", val |-> v, pos |-> p]

\* chr(code), for the code points the model can write
CharOf(code) ==
    IF code \in Displaced THEN Unsupported
    ELSE IF code >= 32 /\ code <= 126 THEN Ok(At(ASCII, code - 32), 0)
    ELSE IF code = 9 THEN Ok("\t", 0)
    ELSE IF code = 10 THEN Ok("\n", 0)
    ELSE IF code = 12 THEN Ok("\f", 0)
    ELSE IF code = 13 THEN Ok("\r", 0)
    ELSE IF code = 54869 THEN Ok("#", 0)
    ELSE IF code = 51064 THEN Ok("%", 0)
    ELSE IF code = 48520 THEN Ok("&", 0)
    ELSE IF code = 44032 THEN Ok("@", 0)
    ELSE Unsupported

\* the decoder's BACKSLASH table
Unescape(e) ==
    CASE e = "\"" -> Ok("\"", 0)
      [] e = "\\" -> Ok("\\", 0)
      [] e = "/" -> Ok("/", 0)
      [] e = "f" -> Ok("\f", 0)
      [] e = "n" -> Ok("\n", 0)
      [] e = "r" -> Ok("\r", 0)
      [] e = "t" -> Ok("\t", 0)
      [] e = "b" -> Unsupported
      [] OTHER -> Fail

RECURSIVE SkipWs(_, _)
SkipWs(s, i) == IF At(s, i) \in {" ", "\t", "\n", "\r"} THEN SkipWs(s, i + 1) ELSE i

\* \uXXXX at s[i:i+4]: four hex digits, else an error
DecodeU(s, i) ==
    LET h == [k \in 0..3 |-> HexVal(At(s, i + k))]
    IN  IF \E k \in 0..3 : h[k] = -1 THEN Fail
        ELSE CharOf(4096 * h[0] + 256 * h[1] + 16 * h[2] + h[3])

RECURSIVE ScanString(_, _, _)
\* scanstring(s, i): i is the index after the opening quote
ScanString(s, i, acc) ==
    LET c == At(s, i) IN
    IF c = "" THEN Fail
    ELSE IF c = "\"" THEN Ok(acc, i + 1)
    ELSE IF c = "\\" THEN
        LET e == At(s, i + 1) IN
        IF e = "" THEN Fail
        ELSE IF e = "u" THEN
            LET u == DecodeU(s, i + 2) IN
            IF u.st = "ok" THEN ScanString(s, i + 6, acc \o u.val) ELSE u
        ELSE
            LET x == Unescape(e) IN
            IF x.st = "ok" THEN ScanString(s, i + 2, acc \o x.val) ELSE x
    ELSE IF c \in ControlChars THEN Fail
    ELSE ScanString(s, i + 1, acc \o c)

RECURSIVE DigitsEnd(_, _)
DigitsEnd(s, i) == IF IsDigit(At(s, i)) THEN DigitsEnd(s, i + 1) ELSE i

RECURSIVE IntOf(_, _, _)
IntOf(s, i, j) ==
    IF j <= i THEN 0 ELSE 10 * IntOf(s, i, j - 1) + Find(DIGITS, At(s, j - 1))

\* NUMBER_RE at s[i:]: -?(0|[1-9]\d*) with no fraction and no exponent
ScanNumber(s, i) ==
    LET neg == At(s, i) = "-"
        a == IF neg THEN i + 1 ELSE i
        b == IF At(s, a) = "0" THEN a + 1 ELSE DigitsEnd(s, a)
        frac == At(s, b) = "." /\ IsDigit(At(s, b + 1))
        exp == /\ At(s, b) \in {"e", "E"}
               /\ \/ IsDigit(At(s, b + 1))
                  \/ At(s, b + 1) \in {"+", "-"} /\ IsDigit(At(s, b + 2))
    IN  IF b = a THEN (IF neg /\ StartsAt(s, "Infinity", a) THEN Unsupported ELSE Fail)
        ELSE IF frac \/ exp THEN Unsupported
        ELSE Ok(JNum(IF neg THEN 0 - IntOf(s, a, b) ELSE IntOf(s, a, b)), b)

RECURSIVE ScanOnce(_, _), ScanMembers(_, _, _), ScanElements(_, _, _)
RECURSIVE AfterKey(_, _, _), AfterMember(_, _, _, _), AfterElement(_, _, _)

\* JSONObject's loop: i is the index after the opening quote of a key
ScanMembers(s, i, pairs) == AfterKey(s, ScanString(s, i, ""), pairs)

\* the key k is scanned: the colon and the value
AfterKey(s, k, pairs) ==
    IF k.st # "ok" THEN k
    ELSE
        LET c == SkipWs(s, k.pos) IN
        IF At(s, c) # ":" THEN Fail
        ELSE AfterMember(s, k.val, ScanOnce(s, SkipWs(s, c + 1)), pairs)

\* the value v of key is scanned: the closing brace, or a comma and a key
AfterMember(s, key, v, pairs) ==
    IF v.st # "ok" THEN v
    ELSE
        LET e == SkipWs(s, v.pos)
            next == PairsPut(pairs, key, v.val)
        IN  IF At(s, e) = "}" THEN Ok(JObj(next), e + 1)
            ELSE IF At(s, e) # "," THEN Fail
            ELSE
                LET q == SkipWs(s, e + 1) IN
                IF At(s, q) # "\"" THEN Fail
                ELSE ScanMembers(s, q + 1, next)

\* JSONArray's loop: i is the index of the next element
ScanElements(s, i, xs) == AfterElement(s, ScanOnce(s, i), xs)

\* the element v is scanned: the closing bracket, or a comma
AfterElement(s, v, xs) ==
    IF v.st # "ok" THEN v
    ELSE
        LET e == SkipWs(s, v.pos) IN
        IF At(s, e) = "]" THEN Ok(JList(Append(xs, v.val)), e + 1)
        ELSE IF At(s, e) # "," THEN Fail
        ELSE ScanElements(s, SkipWs(s, e + 1), Append(xs, v.val))

\* a string scanned where a value is expected
StringValue(r) == IF r.st = "ok" THEN Ok(JStr(r.val), r.pos) ELSE r

\* scan_once(s, i)
ScanOnce(s, i) ==
    LET c == At(s, i) IN
    IF c = "" THEN Fail
    ELSE IF c = "\"" THEN StringValue(ScanString(s, i + 1, ""))
    ELSE IF c = "{" THEN
        LET q == SkipWs(s, i + 1) IN
        IF At(s, q) = "}" THEN Ok(JObj(<<>>), q + 1)
        ELSE IF At(s, q) # "\"" THEN Fail
        ELSE ScanMembers(s, q + 1, <<>>)
    ELSE IF c = "[" THEN
        LET q == SkipWs(s, i + 1) IN
        IF At(s, q) = "]" THEN Ok(JList(<<>>), q + 1)
        ELSE ScanElements(s, q, <<>>)
    ELSE IF StartsAt(s, "null", i) THEN Ok(JNull, i + 4)
    ELSE IF StartsAt(s, "true", i) THEN Ok(JBool(TRUE), i + 4)
    ELSE IF StartsAt(s, "false", i) THEN Ok(JBool(FALSE), i + 5)
    ELSE IF StartsAt(s, "NaN", i) \/ StartsAt(s, "Infinity", i) THEN Unsupported
    ELSE ScanNumber(s, i)

\* the end of the document after the value r
AtEnd(s, r) ==
    IF r.st # "ok" THEN r
    ELSE IF SkipWs(s, r.pos) # Len(s) THEN Fail
    ELSE r

\* json.loads(s): one value, whitespace around it, nothing else
Loads(s) == AtEnd(s, ScanOnce(s, SkipWs(s, 0)))

(***************************************************************************)
(* _escape_inner_quotes_heuristic   (src/app.py)                           *)
(***************************************************************************)

\* next_non_space(idx): the first non-whitespace character at or after idx,
\* "" when there is none
next_non_space(s, idx) ==
    LET N == {j \in NonSpace(s) : j >= idx}
    IN  IF N = {} THEN "" ELSE At(s, CHOOSE j \in N : \A k \in N : j <= k)

\* the characters after which a quote inside a string is taken to close it
CLOSERS == {",", "}", "]"}

\* InnerQuote taking the end of the text for a closer too: C11 fails under it
InnerQuoteEndCloses(s, i) ==
    IF next_non_space(s, i + 1) \in CLOSERS \cup {""}
    THEN [out |-> "\"", in_str |-> FALSE]
    ELSE [out |-> "\\\"", in_str |-> TRUE]

\* InnerQuote escaping with two backslashes instead of one: C12 fails under it
InnerQuoteDoubled(s, i) ==
    IF next_non_space(s, i + 1) \in CLOSERS
    THEN [out |-> "\"", in_str |-> FALSE]
    ELSE [out |-> "\\\\\"", in_str |-> TRUE]

\* what the scan appends for a quote met inside a string at index i
InnerQuote(s, i) ==
    IF next_non_space(s, i + 1) \in CLOSERS
    THEN [out |-> "\"", in_str |-> FALSE]
    ELSE [out |-> "\\\"", in_str |-> TRUE]

RECURSIVE EscapeScan(_, _, _, _)
\* the while loop from index i in state (in_str, esc): what it appends to out
EscapeScan(s, i, in_str, esc) ==
    IF i >= Len(s) THEN ""
    ELSE
        LET ch == At(s, i) IN
        IF esc THEN ch \o EscapeScan(s, i + 1, in_str, FALSE)
        ELSE IF ch = "\\" THEN ch \o EscapeScan(s, i + 1, in_str, TRUE)
        ELSE IF ch = "\"" THEN
            IF ~in_str THEN ch \o EscapeScan(s, i + 1, TRUE, FALSE)
            ELSE
                LET q == InnerQuote(s, i)
                IN  q.out \o EscapeScan(s, i + 1, q.in_str, FALSE)
        ELSE ch \o EscapeScan(s, i + 1, in_str, FALSE)

escape_inner_quotes_heuristic(s) == EscapeScan(s, 0, FALSE, FALSE)

(***************************************************************************)
(* json.dumps(profile, ensure_ascii=False, indent=2)   (src/app.py)        *)
(***************************************************************************)

\* EscapeChar without its escapes: C3 fails under it
EscapeCharNone(c) == c

\* ESCAPE on one character (ensure_ascii=False: only the quote, the
\* backslash and control characters are escaped)
EscapeChar(c) ==
    CASE c = "\"" -> "\\\""
      [] c = "\\" -> "\\\\"
      [] c = "\n" -> "\\n"
      [] c = "\r" -> "\\r"
      [] c = "\t" -> "\\t"
      [] c = "\f" -> "\\f"
      [] OTHER -> c

\* encode_basestring(s)
EncodeString(s) ==
    "\"" \o Concat([i \in 1..Len(s) |-> EscapeChar(At(s, i - 1))]) \o "\""

INDENT == 2

\* the line break and the indentation of nesting level n
NewlineIndent(n) == "\n" \o Concat([i \in 1..(INDENT * n) |-> " "])

RECURSIVE DumpsAt(_, _)
\* _iterencode(v, level)
DumpsAt(v, level) ==
    CASE v.t = "null" -> "null"
      [] v.t = "bool" -> (IF v.v THEN "true" ELSE "false")
      [] v.t = "num" -> ToString(v.v)
      [] v.t = "str" -> EncodeString(v.v)
      [] v.t = "list" ->
            IF v.v = <<>> THEN "[]"
            ELSE "[" \o NewlineIndent(level + 1)
                 \o Join("," \o NewlineIndent(level + 1),
                         [i \in 1..Len(v.v) |-> DumpsAt(v.v[i], level + 1)])
                 \o NewlineIndent(level) \o "]"
      [] v.t = "obj" ->
            IF v.v = <<>> THEN "{}"
            ELSE "{" \o NewlineIndent(level + 1)
                 \o Join("," \o NewlineIndent(level + 1),
                         [i \in 1..Len(v.v) |->
                            EncodeString(v.v[i][1]) \o ": "
                            \o DumpsAt(v.v[i][2], level + 1)])
                 \o NewlineIndent(level) \o "}"

\* json.dumps(v, ensure_ascii=False, indent=2)
Dumps(v) == DumpsAt(v, 0)

(***************************************************************************)
(* Python's view of a decoded JSON value: truth, iteration, str and repr   *)
(***************************************************************************)

Return(v) == [st |-> "return", val |-> v]
Raise(type, msg) == [st |-> "raise", type |-> type, msg |-> msg]

\* bool(v)
Truthy(v) ==
    CASE v.t = "null" -> FALSE
      [] v.t = "bool" -> v.v
      [] v.t = "num" -> v.v # 0
      [] v.t = "str" -> v.v # ""
      [] OTHER -> Len(v.v) > 0

\* for k in v: the entries of a list, the characters of a str, the keys of a
\* dict; anything else is not iterable (TypeError)
Iter(v) ==
    CASE v.t = "list" -> Return(v.v)
      [] v.t = "str" -> Return([i \in 1..Len(v.v) |-> JStr(At(v.v, i - 1))])
      [] v.t = "obj" -> Return([i \in 1..Len(v.v) |-> JStr(v.v[i][1])])
      [] OTHER -> Raise("TypeError", "not iterable")

ReprChar(c, quote) ==
    CASE c = "\\" -> "\\\\"
      [] c = "\n" -> "\\n"
      [] c = "\r" -> "\\r"
      [] c = "\t" -> "\\t"
      [] c = "\f" -> "\\x0c"
      [] c = quote -> "\\" \o quote
      [] OTHER -> c

\* repr(s) of a str: double quotes only when s holds ' and no "
ReprStr(s) ==
    LET quote == IF Contains(s, "'") /\ ~Contains(s, "\"") THEN "\"" ELSE "'"
    IN  quote \o Concat([i \in 1..Len(s) |-> ReprChar(At(s, i - 1), quote)]) \o quote

RECURSIVE PyRepr(_)
\* repr(v)
PyRepr(v) ==
    CASE v.t = "null" -> "None"
      [] v.t = "bool" -> (IF v.v THEN "True" ELSE "False")
      [] v.t = "num" -> ToString(v.v)
      [] v.t = "str" -> ReprStr(v.v)
      [] v.t = "list" ->
            "[" \o Join(", ", [i \in 1..Len(v.v) |-> PyRepr(v.v[i])]) \o "]"
      [] v.t = "obj" ->
            "{" \o Join(", ", [i \in 1..Len(v.v) |->
                        ReprStr(v.v[i][1]) \o ": " \o PyRepr(v.v[i][2])]) \o "}"

\* str(v)
PyStr(v) == IF v.t = "str" THEN v.v ELSE PyRepr(v)

\* the distinct elements of a sequence
Range(xs) == {xs[i] : i \in 1..Len(xs)}

\* list(set(xs))[:n]: a set lists its elements in an order the language does
\* not fix, so every arrangement of every n of them is a possible value
ListOfSetPrefix(xs, n) ==
    LET S == Range(xs)
        m == IF Cardinality(S) < n THEN Cardinality(S) ELSE n
    IN  {q \in [1..m -> S] : \A i, j \in 1..m : i # j => q[i] # q[j]}

(***************************************************************************)
(* Keyword derivation: extract_keywords (src/app.py) and                   *)
(* extract_industry_keywords (src/utils.py).  Each yields the set of its   *)
(* possible outcomes: Return(list) or Raise(type, msg).                    *)
(***************************************************************************)

\* the placeholder text, four Hangul syllables with a space in the middle
PLACEHOLDER == "#% &@"

\* tokens at most this long are dropped
MIN_TOKEN_LEN == 3

\* at most this many derived keywords are kept
MAX_AUTO == 5

EMPTY_LIST == JList(<<>>)

StrList(xs) == [i \in 1..Len(xs) |-> JStr(xs[i])]

\* LongTokens with >= for >, tokens of 3 characters pass too: C7 fails
\* under it
LongTokensInclusive(tokens) == SelectSeq(tokens, LAMBDA t : Len(t) >= MIN_TOKEN_LEN)

\* [t for t in tokens if len(t) > 3]
LongTokens(tokens) == SelectSeq(tokens, LAMBDA t : Len(t) > MIN_TOKEN_LEN)

\* app.py: the fixed fallback
APP_FALLBACK == <<"technology">>

\* app.py: the tokens of product_core_features
AppTokens(features) ==
    IF features.t = "list"
    THEN Split(Lower(Join(" ", [i \in 1..Len(features.v) |-> PyStr(features.v[i])])))
    ELSE Split(Lower(PyStr(features)))

\* app.py: the part of extract_keywords after "if kws: return kws"
AppAuto(profile) ==
    LET features == DictGet(profile, "product_core_features", EMPTY_LIST)
        auto == LongTokens(AppTokens(features))
    IN  IF Len(auto) > 0
        THEN {Return(StrList(q)) : q \in ListOfSetPrefix(auto, MAX_AUTO)}
        ELSE {Return(StrList(APP_FALLBACK))}

extract_keywords(profile) ==
    LET it == Iter(DictGet(profile, "industry_keywords", EMPTY_LIST)) IN
    IF it.st = "raise" THEN {it}
    ELSE
        LET kws == SelectSeq(it.val, LAMBDA k : ~Contains(PyStr(k), PLACEHOLDER))
        IN  IF Len(kws) > 0 THEN {Return(kws)} ELSE AppAuto(profile)

\* utils.py: the fixed fallback
UTILS_FALLBACK == <<"tech", "platform">>

\* utils.py: "확인 불가" in k for a truthy k, or a TypeError
InEntry(k) ==
    CASE k.t = "str" -> Return(Contains(k.v, PLACEHOLDER))
      [] k.t = "list" -> Return(\E i \in 1..Len(k.v) : k.v[i] = JStr(PLACEHOLDER))
      [] k.t = "obj" -> Return(\E i \in 1..Len(k.v) : k.v[i][1] = PLACEHOLDER)
      [] OTHER -> Raise("TypeError", "argument is not iterable")

\* utils.py: k and "확인 불가" not in k
UtilsKeeps(k) == Truthy(k) /\ ~InEntry(k).val

\* utils.py: " ".join(feat)
UtilsJoin(feat) ==
    LET it == Iter(feat) IN
    IF it.st = "raise" THEN Raise("TypeError", "can only join an iterable")
    ELSE IF \E i \in 1..Len(it.val) : it.val[i].t # "str"
         THEN Raise("TypeError", "sequence item: expected str instance")
    ELSE Return(Join(" ", [i \in 1..Len(it.val) |-> it.val[i].v]))

\* utils.py: the part of extract_industry_keywords after "if clean: return clean"
UtilsAuto(profile_data) ==
    LET joined == UtilsJoin(DictGet(profile_data, "product_core_features", EMPTY_LIST)) IN
    IF joined.st = "raise" THEN {joined}
    ELSE
        LET auto_kw == LongTokens(Split(Lower(joined.val)))
        IN  IF Len(auto_kw) > 0
            THEN {Return(StrList(q)) : q \in ListOfSetPrefix(auto_kw, MAX_AUTO)}
            ELSE {Return(StrList(UTILS_FALLBACK))}

extract_industry_keywords(profile_data) ==
    LET it == Iter(DictGet(profile_data, "industry_keywords", EMPTY_LIST)) IN
    IF it.st = "raise" THEN {it}
    ELSE IF \E i \in 1..Len(it.val) :
                Truthy(it.val[i]) /\ InEntry(it.val[i]).st = "raise"
         THEN {Raise("TypeError", "argument is not iterable")}
    ELSE
        LET clean == SelectSeq(it.val, UtilsKeeps)
        IN  IF Len(clean) > 0 THEN {Return(clean)} ELSE UtilsAuto(profile_data)

(***************************************************************************)
(* extract_json_from_text   (src/utils.py)                                 *)
(***************************************************************************)

FENCE_JSON == "^^^json"
FENCE == "^^^"

\* text.replace("```json", "").replace("```", "").strip()
StripFences(text) == Strip(Remove(Remove(text, FENCE_JSON), FENCE))

\* re.findall(r"\{[\s\S]*?\}", cleaned): the first match runs from the first
\* "{" to the first "}" after it; there is no match when either is missing
FirstBraceMatch(cleaned) ==
    LET i == Find(cleaned, "{")
        j == IF i = -1 THEN -1 ELSE FindFrom(cleaned, "}", i + 1)
    IN  IF j = -1 THEN [found |-> FALSE]
        ELSE [found |-> TRUE, text |-> Slice(cleaned, i, j + 1)]

\* a json.loads result as an outcome
LoadsOutcome(r) ==
    CASE r.st = "ok" -> Return(r.val)
      [] r.st = "err" -> Raise("JSONDecodeError", "")
      [] OTHER -> [st |-> "unmodelled"]

extract_json_from_text(text) ==
    IF text = "" THEN Raise("ValueError", "empty response")
    ELSE
        LET m == FirstBraceMatch(StripFences(text)) IN
        IF ~m.found THEN Raise("ValueError", "no JSON object found")
        ELSE LoadsOutcome(Loads(m.text))

(***************************************************************************)
(* State                                                                   *)
(***************************************************************************)

VARIABLES
    \* one call of extract_json (src/app.py): its argument, its position, its
    \* locals, what it returned or raised, and the statements it has run
    text, absent, pc, cleaned, start, end, raw, repaired, result, stages,
    \* the recovery harness: the input drawn with its parts, the pass (2 once
    \* the mapping of pass 1 has been serialized and fed back), that mapping
    input, pass, first,
    \* the analysis run of src/app.py (the "if run:" block)
    rpc, raw_json_text, fixed_text, profile, shown, repair_calls, crash_at,
    \* keyword derivation: the function applied, its argument, its outcome
    kw_fn, kw_profile, kw_out,
    \* generate_company_profile (src/main.py) around extract_json_from_text
    m_pc, m_input, m_text, m_out,
    \* one call of _escape_inner_quotes_heuristic (src/app.py), statement by
    \* statement: a record of its argument s, its locals n, i, out, in_str
    \* and esc, its position pc and what it returned, ret
    scan

frame == <<text, absent, pc, cleaned, start, end, raw, repaired, result, stages>>
harness == <<input, pass, first>>
run == <<rpc, raw_json_text, fixed_text, profile, shown, repair_calls, crash_at>>
kw == <<kw_fn, kw_profile, kw_out>>
main == <<m_pc, m_input, m_text, m_out>>
vars == <<frame, harness, run, kw, main, scan>>

NoResult == [st |-> "none"]
NoInput == [kind |-> "none", pre |-> "", open |-> "", body |-> "", close |-> "", post |-> "", text |-> ""]

\* _escape_inner_quotes_heuristic is entered with argument t: out = [],
\* in_str = False, esc = False, i = 0, n = len(s)
ScanStart(t) ==
    [s |-> t, n |-> Len(t), i |-> 0, out |-> <<>>, in_str |-> FALSE,
     esc |-> FALSE, pc |-> "loop", ret |-> ""]

\* extract_json is called with argument t (absent: the argument is None)
Call(t, none) ==
    /\ text' = t
    /\ absent' = none
    /\ pc' = "check"
    /\ cleaned' = ""
    /\ start' = -1
    /\ end' = -1
    /\ raw' = ""
    /\ repaired' = ""
    /\ result' = NoResult
    /\ stages' = <<>>

FrameIdle ==
    /\ text = ""
    /\ absent = FALSE
    /\ pc = "idle"
    /\ cleaned = ""
    /\ start = -1
    /\ end = -1
    /\ raw = ""
    /\ repaired = ""
    /\ result = NoResult
    /\ stages = <<>>

HarnessIdle == input = NoInput /\ pass = 0 /\ first = NoResult

RunIdle ==
    /\ rpc = "idle"
    /\ raw_json_text = ""
    /\ fixed_text = ""
    /\ profile = NoResult
    /\ shown = <<>>
    /\ repair_calls = 0
    /\ crash_at = ""

KwIdle == kw_fn = "" /\ kw_profile = NoResult /\ kw_out = NoResult

MainIdle == m_pc = "idle" /\ m_input = NoInput /\ m_text = "" /\ m_out = NoResult

(***************************************************************************)
(* extract_json   (src/app.py), one action per statement                   *)
(***************************************************************************)

\* IsEmptyArg weakened, only an absent argument counts as empty: C4 fails
\* under it
IsEmptyArgNoneOnly == absent

\* the guard of the first "if": not text
IsEmptyArg == absent \/ text = ""

\* if not text: raise ValueError("Empty response")
EJ_Check ==
    /\ pc = "check"
    /\ IF IsEmptyArg
       THEN /\ pc' = "raised"
            /\ result' = Raise("ValueError", "Empty response")
       ELSE /\ pc' = "clean"
            /\ result' = result
    /\ UNCHANGED <<text, absent, cleaned, start, end, raw, repaired, stages>>
    /\ UNCHANGED <<harness, run, kw, main, scan>>

\* cleaned = text.replace("```json", "").replace("```", "").strip()
EJ_Clean ==
    /\ pc = "clean"
    /\ cleaned' = StripFences(text)
    /\ stages' = Append(stages, "clean")
    /\ pc' = "find"
    /\ UNCHANGED <<text, absent, start, end, raw, repaired, result>>
    /\ UNCHANGED <<harness, run, kw, main, scan>>

\* NoBlock weakened, the order of the two braces is not looked at: C5 fails
\* under it
NoBlockMissingOnly(st, en) == st = -1 \/ en = -1

\* the guard of the second "if": start == -1 or end == -1 or end <= start
NoBlock(st, en) == st = -1 \/ en = -1 \/ en <= st

\* Block off by one, the slice stops before the closing brace: C1 fails
\* under it
BlockExclusive(c, st, en) == Slice(c, st, en)

\* raw = cleaned[start:end + 1]
Block(c, st, en) == Slice(c, st, en + 1)

\* start = cleaned.find("{"); end = cleaned.rfind("}"); the "if" that raises
\* ValueError("JSON block not found"); raw = cleaned[start:end + 1]
EJ_Find ==
    /\ pc = "find"
    /\ start' = Find(cleaned, "{")
    /\ end' = RFind(cleaned, "}")
    /\ stages' = Append(stages, "find")
    /\ IF NoBlock(start', end')
       THEN /\ pc' = "raised"
            /\ result' = Raise("ValueError", "JSON block not found")
            /\ raw' = raw
       ELSE /\ pc' = "parse"
            /\ result' = result
            /\ raw' = Block(cleaned, start', end')
    /\ UNCHANGED <<text, absent, cleaned, repaired>>
    /\ UNCHANGED <<harness, run, kw, main, scan>>

\* try: return json.loads(raw)  except Exception: pass
EJ_Parse ==
    /\ pc = "parse"
    /\ stages' = Append(stages, "parse")
    /\ LET r == Loads(raw) IN
       CASE r.st = "ok" -> pc' = "returned" /\ result' = Return(r.val)
         [] r.st = "err" -> pc' = "repair" /\ result' = result
         [] OTHER -> pc' = "unmodelled" /\ result' = result
    /\ UNCHANGED <<text, absent, cleaned, start, end, raw, repaired>>
    /\ UNCHANGED <<harness, run, kw, main, scan>>

\* repaired = _escape_inner_quotes_heuristic(raw)
EJ_Repair ==
    /\ pc = "repair"
    /\ repaired' = escape_inner_quotes_heuristic(raw)
    /\ stages' = Append(stages, "repair")
    /\ pc' = "reparse"
    /\ UNCHANGED <<text, absent, cleaned, start, end, raw, result>>
    /\ UNCHANGED <<harness, run, kw, main, scan>>

\* return json.loads(repaired): a JSONDecodeError leaves the function
EJ_Reparse ==
    /\ pc = "reparse"
    /\ stages' = Append(stages, "reparse")
    /\ LET r == Loads(repaired) IN
       CASE r.st = "ok" -> pc' = "returned" /\ result' = Return(r.val)
         [] r.st = "err" -> pc' = "raised" /\ result' = Raise("JSONDecodeError", "")
         [] OTHER -> pc' = "unmodelled" /\ result' = result
    /\ UNCHANGED <<text, absent, cleaned, start, end, raw, repaired>>
    /\ UNCHANGED <<harness, run, kw, main, scan>>

extract_json == EJ_Check \/ EJ_Clean \/ EJ_Find \/ EJ_Parse \/ EJ_Repair \/ EJ_Reparse

\* the call has returned or raised
Finished == pc \in {"returned", "raised"}

(***************************************************************************)
(* The inputs of the recovery harness                                      *)
(***************************************************************************)

\* texts of at most this many characters over Alphabet are all drawn
MaxLen == 4

Alphabet == {"{", "}", "\"", "\\", ",", ":", "a", " "}

RECURSIVE TextsOfLen(_)
TextsOfLen(n) ==
    IF n = 0 THEN {""} ELSE {t \o c : t \in TextsOfLen(n - 1), c \in Alphabet}

ShortTexts == UNION {TextsOfLen(n) : n \in 0..MaxLen}

\* the input of the spec's quote-repair example, and the regression example
STRAY_QUOTES == "{\"a\": \"he said \"hi\" to me\", \"b\": 1}"
ENDS_RIGHT_HERE == "{\"a\": \"ends right here\"}"

NamedTexts ==
    { STRAY_QUOTES, ENDS_RIGHT_HERE,
      "{\"a\": \"x \"y\" z\"}", "{\"a\": [\"x \"y\"\", 1]}", "{\"a\": 1,}",
      "{a: 1}", "{\"a\" 1}", "{'a': 1}", "^^^json", "^^^{^^^", "no json here",
      "{\"a\": tru}", "[1, 2]", "\"{}\"", "{\"a\": \"x\\\"}", "{\"a\": \"\\x\"}",
      "^^^json\n{\"a\": \"x \"y\" z\"}\n^^^", "{\"a\": \"1\n2\"}" }

\* value texts: a number, strings (one with a brace, one with an escaped
\* quote, one that spells a code fence, one that decodes to a code fence),
\* null, a nested object, a list
ValueTexts ==
    { "1", "\"x\"", "\"}{\"", "\"q\\\"q\"", "\"^^^\"", "\"^^\\u0060\"", "null",
      "{\"c\": 10}", "[1, \"x\"]" }

\* JSON object texts with no member, one member or two: the first under
\* the key a, the second under a again or under b
ObjectTexts ==
    LET firsts == {"\"a\": " \o v : v \in ValueTexts}
        seconds == {k \o ": " \o v : k \in {"\"a\"", "\"b\""}, v \in ValueTexts}
    IN  {"{}"} \cup {"{" \o m \o "}" : m \in firsts}
               \cup {"{" \o m \o ", " \o n \o "}" : m \in firsts, n \in seconds}

\* what a model writes before and after the object
ProseBefore == {"", "Here: ", "see {x} "}
ProseAfter == {"", " Done.", " {y}"}

\* <<opening marker, closing marker>>
Fences == {<<"", "">>, <<"^^^json\n", "\n^^^">>, <<"^^^", "^^^">>}

Wrapped(pre, f, body, post) ==
    [kind |-> "wrapped", pre |-> pre, open |-> f[1], body |-> body,
     close |-> f[2], post |-> post,
     text |-> pre \o f[1] \o body \o f[2] \o post]

Plain(t) ==
    [kind |-> "plain", pre |-> "", open |-> "", body |-> "", close |-> "",
     post |-> "", text |-> t]

Inputs ==
    {Wrapped(pre, f, body, post) :
        pre \in ProseBefore, f \in Fences, body \in ObjectTexts, post \in ProseAfter}
    \cup {Plain(t) : t \in ShortTexts \cup NamedTexts}

(***************************************************************************)
(* Spec: extract_json applied to each input, and then once more to the     *)
(* json.dumps text of what it returned                                     *)
(***************************************************************************)

Init ==
    /\ \E i \in Inputs, none \in BOOLEAN :
          /\ none => i = Plain("")
          /\ input = i
          /\ text = i.text
          /\ absent = none
    /\ pass = 1
    /\ first = NoResult
    /\ pc = "check"
    /\ cleaned = ""
    /\ start = -1
    /\ end = -1
    /\ raw = ""
    /\ repaired = ""
    /\ result = NoResult
    /\ stages = <<>>
    /\ RunIdle
    /\ KwIdle
    /\ MainIdle
    /\ scan = [ScanStart("") EXCEPT !.pc = "idle"]

\* extract_json(json.dumps(m)) for the mapping m that pass 1 returned
Reserialize ==
    /\ pass = 1
    /\ pc = "returned"
    /\ first' = result
    /\ pass' = 2
    /\ Call(Dumps(result.val), FALSE)
    /\ UNCHANGED <<input, run, kw, main, scan>>

Next == extract_json \/ Reserialize

Spec == Init /\ [][Next]_vars

\* every decoder result in the runs is one the model has a notation for
ModelCoversInputs == pc # "unmodelled"

(***************************************************************************)
(* Recovery: the properties of extract_json                                *)
(***************************************************************************)

HasBrace(t) == Contains(t, "{") \/ Contains(t, "}")

\* the mapping that parsing the embedded object directly gives
Direct(i) == Return(Loads(i.body).val)

\* C1, as stated: for every valid JSON object wrapped in code-fence markers
\* and/or prose, extract_json returns the mapping that parsing the object
\* directly gives.
C1_AnyWrapping ==
    (pass = 1 /\ input.kind = "wrapped" /\ pc \notin {"check", "clean", "find", "parse"})
        => pc = "returned" /\ result = Direct(input)

\* C1, amended: the same, provided the prose before and after the object
\* holds no brace and the object's text holds no three consecutive backticks.
C1_RoundTrip ==
    (/\ pass = 1
     /\ input.kind = "wrapped"
     /\ ~HasBrace(input.pre)
     /\ ~HasBrace(input.post)
     /\ ~Contains(input.body, FENCE)
     /\ pc \notin {"check", "clean", "find", "parse"})
        => pc = "returned" /\ result = Direct(input)

\* a fenced object between two pieces of prose has been recovered
C1_Witness ==
    /\ pass = 1
    /\ input.kind = "wrapped"
    /\ input.pre # ""
    /\ input.post # ""
    /\ input.open = "^^^json\n"
    /\ ~HasBrace(input.pre) /\ ~HasBrace(input.post)
    /\ Contains(input.body, ", ")
    /\ pc = "returned"
    /\ result = Direct(input)

\* the mapping the spec's stray-quote example is said to give
STRAY_QUOTES_MAPPING ==
    JObj(<< <<"a", JStr("he said \"hi\" to me")>>, <<"b", JNum(1)>> >>)

\* C2: for the input {"a": "he said "hi" to me", "b": 1} strict parsing
\* fails, the quote repair runs, and extract_json returns the mapping with
\* a = he said "hi" to me and b = 1.
C2_StrayQuotesRepaired ==
    (pass = 1 /\ input.text = STRAY_QUOTES /\ Finished)
        => /\ "repair" \in Range(stages)
           /\ pc = "returned"
           /\ result = Return(STRAY_QUOTES_MAPPING)

RECURSIVE HasFence(_)
\* a key or a string of the JSON value v holds three consecutive backticks
HasFence(v) ==
    CASE v.t = "str" -> Contains(v.v, FENCE)
      [] v.t = "list" -> \E i \in 1..Len(v.v) : HasFence(v.v[i])
      [] v.t = "obj" ->
            \E i \in 1..Len(v.v) : Contains(v.v[i][1], FENCE) \/ HasFence(v.v[i][2])
      [] OTHER -> FALSE

\* C3, as stated: when extract_json succeeded with mapping m, extract_json
\* on the JSON text of m succeeds and returns a mapping identical to m.
C3_AnyMapping ==
    (pass = 2 /\ pc \notin {"check", "clean", "find", "parse"})
        => pc = "returned" /\ result = first

\* C3, amended: the same, provided no key and no string of m holds three
\* consecutive backticks.
C3_Idempotent ==
    (pass = 2 /\ ~HasFence(first.val) /\ pc \notin {"check", "clean", "find", "parse"})
        => pc = "returned" /\ result = first

\* a mapping with members came back unchanged from its own JSON text
C3_Witness ==
    /\ pass = 2
    /\ pc = "returned"
    /\ result = first
    /\ Len(first.val.v) = 2
    /\ \E i \in 1..2 : first.val.v[i][2].t = "str" /\ Contains(first.val.v[i][2].v, "\"")

EMPTY_INPUT == Raise("ValueError", "Empty response")
NO_BLOCK == Raise("ValueError", "JSON block not found")

\* C4: for the empty string or an absent input extract_json fails with the
\* empty-input error before fence stripping, block extraction or parsing
\* has run, and that error differs from the one for a missing JSON block.
C4_EmptyInput ==
    ((absent \/ Len(text) = 0) /\ pc # "check")
        => /\ pc = "raised"
           /\ result = EMPTY_INPUT
           /\ stages = <<>>
           /\ result # NO_BLOCK

\* the empty string has been refused
C4_Witness == ~absent /\ text = "" /\ pc = "raised" /\ result = EMPTY_INPUT

\* the positions of character c in t
Positions(t, c) == {i \in 0..(Len(t) - 1) : At(t, i) = c}

\* t has no "{", or no "}", or its last "}" is not after its first "{"
NoBraceSpan(t) ==
    \/ Positions(t, "{") = {}
    \/ Positions(t, "}") = {}
    \/ \A j \in Positions(t, "}"), i \in Positions(t, "{") : j < i

\* C5: for a non-empty input whose fence-stripped, trimmed text has no "{",
\* or no "}", or whose last "}" is not strictly after its first "{",
\* extract_json fails with the no-block error and neither a parse nor the
\* quote repair is attempted.
C5_NoBlock ==
    (/\ ~absent
     /\ text # ""
     /\ NoBraceSpan(Strip(Remove(Remove(text, "^^^json"), "^^^")))
     /\ pc \notin {"check", "clean", "find"})
        => /\ pc = "raised"
           /\ result = NO_BLOCK
           /\ stages = <<"clean", "find">>

\* a text with both braces, the closing one first, has been refused
C5_Witness ==
    /\ Contains(text, "{")
    /\ Contains(text, "}")
    /\ pc = "raised"
    /\ result = NO_BLOCK

(***************************************************************************)
(* SpecKw: a profile text goes through extract_json and the mapping it     *)
(* returns goes through extract_keywords and extract_industry_keywords     *)
(***************************************************************************)

\* the two list fields hold at most this many entries
MaxEntries == 2

\* a field that the object does not have
ABSENT == "-"

KeywordEntries == {"\"fintech\"", "\"#% &@\"", "7"}

FeatureEntries ==
    {"\"AI-driven logistics optimization\"", "\"app api\"", "\"Data data\""}

\* the JSON texts of the lists of at most n of the entries
ListTexts(entries, n) ==
    {"[" \o Join(", ", q) \o "]" : q \in UNION {[1..k -> entries] : k \in 0..n}}

NonListTexts == {ABSENT, "null", "7", "\"logistics\"", "{\"sector\": \"health\"}"}

KeywordTexts ==
    ListTexts(KeywordEntries, MaxEntries) \cup NonListTexts
        \cup { "[[\"#% &@\"]]", "[null, \"#% &@\"]", "[\"\", \"#% &@\"]",
               "[\"n/a (#% &@)\", \"#% &@\"]" }

\* one list with six distinct long tokens, for the cut at five
FeatureTexts ==
    ListTexts(FeatureEntries, MaxEntries) \cup NonListTexts
        \cup { "[\"Alpha beta gamma\", \"delta  EPSILON\\tzeta beta\"]",
               "[null, \"mobile\"]", "[1234]" }

ProfileText(ik, pf) ==
    LET ms == SelectSeq(<< <<"industry_keywords", ik>>, <<"product_core_features", pf>> >>,
                        LAMBDA m : m[2] # ABSENT)
    IN  "{" \o Join(", ", [i \in 1..Len(ms) |-> "\"" \o ms[i][1] \o "\": " \o ms[i][2]]) \o "}"

\* a response that is no JSON even after the quote repair
BROKEN_PROFILE == "{\"industry_keywords\": [\"a \"b\" c\"]}"

KwInputs ==
    {ProfileText(ik, pf) : ik \in KeywordTexts, pf \in FeatureTexts} \cup {BROKEN_PROFILE}

InitKw ==
    /\ \E t \in KwInputs :
          /\ input = Plain(t)
          /\ text = t
    /\ absent = FALSE
    /\ pass = 0
    /\ first = NoResult
    /\ pc = "check"
    /\ cleaned = ""
    /\ start = -1
    /\ end = -1
    /\ raw = ""
    /\ repaired = ""
    /\ result = NoResult
    /\ stages = <<>>
    /\ RunIdle
    /\ KwIdle
    /\ MainIdle
    /\ scan = [ScanStart("") EXCEPT !.pc = "idle"]

\* kws = extract_keywords(profile)   (src/app.py)
KW_App ==
    /\ pc = "returned"
    /\ kw_fn = ""
    /\ kw_fn' = "app"
    /\ kw_profile' = result.val
    /\ \E o \in extract_keywords(result.val) : kw_out' = o
    /\ UNCHANGED <<frame, harness, run, main, scan>>

\* extract_industry_keywords(profile_data)   (src/utils.py)
KW_Utils ==
    /\ pc = "returned"
    /\ kw_fn = ""
    /\ kw_fn' = "utils"
    /\ kw_profile' = result.val
    /\ \E o \in extract_industry_keywords(result.val) : kw_out' = o
    /\ UNCHANGED <<frame, harness, run, main, scan>>

NextKw == extract_json \/ KW_App \/ KW_Utils

SpecKw == InitKw /\ [][NextKw]_vars

(***************************************************************************)
(* Keyword derivation: its properties                                      *)
(***************************************************************************)

\* one of the two functions has been applied
KwDone == kw_fn # ""

\* the two fields of the profile, an empty list when the field is absent
DeclaredKeywords == DictGet(kw_profile, "industry_keywords", EMPTY_LIST)
Features == DictGet(kw_profile, "product_core_features", EMPTY_LIST)

IsStrList(v) == v.t = "list" /\ \A i \in 1..Len(v.v) : v.v[i].t = "str"

\* no declared keyword, or only ones that hold the placeholder text
NoUsableKeywords ==
    /\ IsStrList(DeclaredKeywords)
    /\ \A i \in 1..Len(DeclaredKeywords.v) :
          \E a \in 0..Len(DeclaredKeywords.v[i].v) :
              Slice(DeclaredKeywords.v[i].v, a, a + Len(PLACEHOLDER)) = PLACEHOLDER

\* the whitespace-separated tokens of t: each runs from a character that is
\* no whitespace and has whitespace or nothing before it to the nearest
\* following character that is no whitespace and has whitespace or nothing
\* after it
TokenSet(t) ==
    LET solid == {i \in 0..(Len(t) - 1) : ~IsSpace(At(t, i))}
        firsts == {i \in solid : i - 1 \notin solid}
        lasts == {i \in solid : i + 1 \notin solid}
    IN  {Slice(t, a, (CHOOSE b \in lasts : b >= a /\ \A c \in lasts : c >= a => b <= c) + 1) :
            a \in firsts}

\* the distinct lowercase tokens, longer than 3 characters, of the features
\* joined by spaces
ExpectedTokens ==
    LET joined == Join(" ", [i \in 1..Len(Features.v) |-> Features.v[i].v])
    IN  {w \in {Lower(x) : x \in TokenSet(joined)} : Len(w) > 3}

\* C6: keyword derivation never fails: whatever mapping extract_json has
\* returned, both functions return a sequence of strings and raise nothing.
C6_NeverFails ==
    KwDone =>
        /\ kw_out.st = "return"
        /\ \A i \in 1..Len(kw_out.val) : kw_out.val[i].t = "str"

\* C7: when every declared keyword holds the placeholder (or there is none)
\* and the features give at least one token longer than 3 characters, the
\* result holds distinct lowercase tokens of the space-joined features that
\* are longer than 3 characters, all of them up to the limit of 5 and never
\* one twice; for ["AI-driven logistics optimization"] it is a permutation
\* of ai-driven, logistics, optimization.
C7_TokenFallback ==
    (KwDone /\ NoUsableKeywords /\ IsStrList(Features)) =>
        LET expected == ExpectedTokens
            n == Cardinality(expected)
        IN  n > 0 =>
            /\ kw_out.st = "return"
            /\ \A i \in 1..Len(kw_out.val) :
                  kw_out.val[i].t = "str" /\ kw_out.val[i].v \in expected
            /\ \A i, j \in 1..Len(kw_out.val) : i # j => kw_out.val[i] # kw_out.val[j]
            /\ Len(kw_out.val) = (IF n > 5 THEN 5 ELSE n)
            /\ Features = JList(<<JStr("AI-driven logistics optimization")>>) =>
                  /\ Len(kw_out.val) = 3
                  /\ {kw_out.val[i].v : i \in 1..3} = {"ai-driven", "logistics", "optimization"}

\* six distinct tokens after a placeholder keyword: five of them are kept
C7_Witness ==
    /\ KwDone
    /\ NoUsableKeywords
    /\ DeclaredKeywords.v # <<>>
    /\ IsStrList(Features)
    /\ Cardinality(ExpectedTokens) = 6
    /\ kw_out.st = "return"
    /\ Len(kw_out.val) = 5

\* C8: with no usable declared keyword and no feature token longer than 3
\* characters, the result is the fixed fallback, a sequence of exactly one
\* element that is the same for every such profile and for both functions.
C8_OneElementFallback ==
    (KwDone /\ NoUsableKeywords /\ IsStrList(Features) /\ ExpectedTokens = {}) =>
        kw_out = Return(<<JStr("technology")>>)

(***************************************************************************)
(* SpecRun: one analysis run, the "if run:" block of src/app.py            *)
(***************************************************************************)

\* what the gateway answers to the JSON prompt: resp.text, or NO_TEXT when
\* the response carries no text
NO_TEXT == "<none>"

GOOD_PROFILE ==
    "{\"problem_definition\": \"slow\\nfreight\", \"product_core_features\": [\"route planner\"], \"industry_keywords\": [\"logistics\"]}"

Responses ==
    { GOOD_PROFILE,
      "^^^json\n" \o GOOD_PROFILE \o "\n^^^",
      "Here is the analysis: {\"core_tech_moat\": \"\"} ",
      "{\"problem_definition\": 5}",
      "{\"product_core_features\": [1, 2]}",
      "{\"product_core_features\": \"api\", \"industry_keywords\": [7]}",
      "{\"industry_keywords\": null}",
      "{\"a\": \"x \"y\" z\"}",
      "{\"a\": 1,}",
      "I cannot answer.",
      "",
      NO_TEXT }

\* what the gateway answers to the repair prompt
Repairs ==
    { "{\"a\": \"x y z\"}", "^^^\n{\"a\": 1}\n^^^", "{\"a\": \"x \"y\" z\"}", "Sorry.", NO_TEXT }

\* (resp.text or "").strip()
TextOf(t) == IF t = NO_TEXT THEN "" ELSE Strip(t)

Shown(kind, body) == [kind |-> kind, body |-> body]

\* tile(title, body): safe = (body or "").replace("\n", "<br>")
tile(body) ==
    IF ~Truthy(body) THEN Return("")
    ELSE IF body.t = "str" THEN Return(ReplaceWith(body.v, "\n", "<br>", 0))
    ELSE Raise("AttributeError", "no attribute replace")

\* "<br>".join(profile.get("product_core_features", []) or [])
JoinFeatures(v) ==
    IF ~Truthy(v) THEN Return(JStr(""))
    ELSE
        LET it == Iter(v) IN
        IF it.st = "raise" THEN Raise("TypeError", "can only join an iterable")
        ELSE IF \E i \in 1..Len(it.val) : it.val[i].t # "str"
             THEN Raise("TypeError", "sequence item: expected str instance")
        ELSE Return(JStr(Join("<br>", [i \in 1..Len(it.val) |-> it.val[i].v])))

TILE_FIELDS ==
    << "problem_definition", "solution_value_prop", "revenue_model_type",
       "product_core_features", "core_tech_moat", "ceo_vision_summary",
       "org_culture_biz_focus", "recent_news_summary" >>

\* the outcome of the tile of one field of profile p
FieldTile(p, name) ==
    IF name = "product_core_features"
    THEN LET j == JoinFeatures(DictGet(p, name, EMPTY_LIST))
         IN  IF j.st = "raise" THEN j ELSE tile(j.val)
    ELSE tile(DictGet(p, name, JStr("")))

InitRun ==
    /\ rpc = "start"
    /\ raw_json_text = ""
    /\ fixed_text = ""
    /\ profile = NoResult
    /\ shown = <<>>
    /\ repair_calls = 0
    /\ crash_at = ""
    /\ FrameIdle
    /\ HarnessIdle
    /\ KwIdle
    /\ MainIdle
    /\ scan = [ScanStart("") EXCEPT !.pc = "idle"]

Crash(where) == rpc' = "crashed" /\ crash_at' = where

\* the gateway call raised instead of answering
GATEWAY_ERROR == "<error>"

\* the checks that open the block: company name, CEO name, API key
Run_Start ==
    /\ rpc = "start"
    /\ \E missing \in {"", "company_name", "ceo_name", "api_key"} :
          IF missing = ""
          THEN rpc' = "gather" /\ shown' = shown
          ELSE rpc' = "stopped" /\ shown' = Append(shown, Shown("error", missing))
    /\ UNCHANGED <<raw_json_text, fixed_text, profile, repair_calls, crash_at>>
    /\ UNCHANGED <<frame, harness, kw, main, scan>>

\* STEP 1: gather_resp = client.models.generate_content(...)
Run_Gather ==
    /\ rpc = "gather"
    /\ \E r \in {"facts", GATEWAY_ERROR} :
          IF r = GATEWAY_ERROR THEN Crash("gather")
          ELSE rpc' = "generate" /\ crash_at' = crash_at
    /\ UNCHANGED <<raw_json_text, fixed_text, profile, shown, repair_calls>>
    /\ UNCHANGED <<frame, harness, kw, main, scan>>

\* STEP 2: json_resp = ...; raw_json_text = (json_resp.text or "").strip();
\* profile = extract_json(raw_json_text) is entered
Run_Generate ==
    /\ rpc = "generate"
    /\ \E r \in Responses \cup {GATEWAY_ERROR} :
          IF r = GATEWAY_ERROR
          THEN /\ Crash("generate")
               /\ raw_json_text' = raw_json_text
               /\ UNCHANGED frame
          ELSE /\ rpc' = "extract1"
               /\ crash_at' = crash_at
               /\ raw_json_text' = TextOf(r)
               /\ Call(TextOf(r), FALSE)
    /\ UNCHANGED <<fixed_text, profile, shown, repair_calls>>
    /\ UNCHANGED <<harness, kw, main, scan>>

\* the first extract_json returned: profile is bound
Run_Parsed1 ==
    /\ rpc = "extract1"
    /\ pc = "returned"
    /\ profile' = result
    /\ rpc' = "step3"
    /\ UNCHANGED <<raw_json_text, fixed_text, shown, repair_calls, crash_at>>
    /\ UNCHANGED <<frame, harness, kw, main, scan>>

\* except Exception: st.warning(...)
Run_Except1 ==
    /\ rpc = "extract1"
    /\ pc = "raised"
    /\ shown' = Append(shown, Shown("warning", "repair"))
    /\ rpc' = "repair"
    /\ UNCHANGED <<raw_json_text, fixed_text, profile, repair_calls, crash_at>>
    /\ UNCHANGED <<frame, harness, kw, main, scan>>

\* fixed_text = repair_json_with_model(client, raw_json_text), which is
\* outside the inner try; then extract_json(fixed_text) is entered
Run_Repair ==
    /\ rpc = "repair"
    /\ repair_calls' = repair_calls + 1
    /\ \E r \in Repairs \cup {GATEWAY_ERROR} :
          IF r = GATEWAY_ERROR
          THEN /\ Crash("repair")
               /\ fixed_text' = fixed_text
               /\ UNCHANGED frame
          ELSE /\ rpc' = "extract2"
               /\ crash_at' = crash_at
               /\ fixed_text' = TextOf(r)
               /\ Call(TextOf(r), FALSE)
    /\ UNCHANGED <<raw_json_text, profile, shown>>
    /\ UNCHANGED <<harness, kw, main, scan>>

\* the second extract_json returned: profile is bound
Run_Parsed2 ==
    /\ rpc = "extract2"
    /\ pc = "returned"
    /\ profile' = result
    /\ rpc' = "step3"
    /\ UNCHANGED <<raw_json_text, fixed_text, shown, repair_calls, crash_at>>
    /\ UNCHANGED <<frame, harness, kw, main, scan>>

\* except Exception: st.error, the two st.code blocks, st.stop()
Run_Except2 ==
    /\ rpc = "extract2"
    /\ pc = "raised"
    /\ shown' = shown \o << Shown("error", "repair failed"),
                            Shown("code", raw_json_text),
                            Shown("code", fixed_text) >>
    /\ rpc' = "stopped"
    /\ UNCHANGED <<raw_json_text, fixed_text, profile, repair_calls, crash_at>>
    /\ UNCHANGED <<frame, harness, kw, main, scan>>

\* STEP 3: the eight tiles, in order; the first that raises ends the run
Run_Step3 ==
    /\ rpc = "step3"
    /\ LET outs == [i \in 1..Len(TILE_FIELDS) |-> FieldTile(profile.val, TILE_FIELDS[i])]
           bad == {i \in 1..Len(outs) : outs[i].st = "raise"}
           n == IF bad = {} THEN Len(outs)
                ELSE (CHOOSE i \in bad : \A j \in bad : i <= j) - 1
       IN  /\ shown' = shown \o [i \in 1..n |-> Shown("tile", outs[i].val)]
           /\ IF bad = {} THEN rpc' = "keywords" /\ crash_at' = crash_at
              ELSE Crash("tiles")
    /\ UNCHANGED <<raw_json_text, fixed_text, profile, repair_calls>>
    /\ UNCHANGED <<frame, harness, kw, main, scan>>

\* keywords = extract_keywords(profile); tile(..., ", ".join(keywords))
Run_Keywords ==
    /\ rpc = "keywords"
    /\ kw_fn' = "app"
    /\ kw_profile' = profile.val
    /\ \E o \in extract_keywords(profile.val) :
          /\ kw_out' = o
          /\ IF o.st = "raise" \/ \E i \in 1..Len(o.val) : o.val[i].t # "str"
             THEN Crash("keywords") /\ shown' = shown
             ELSE /\ rpc' = "reports"
                  /\ crash_at' = crash_at
                  /\ shown' = Append(shown,
                        Shown("tile", Join(", ", [i \in 1..Len(o.val) |-> o.val[i].v])))
    /\ UNCHANGED <<raw_json_text, fixed_text, profile, repair_calls>>
    /\ UNCHANGED <<frame, harness, main, scan>>

\* the industry reports: four more gateway calls, any of which may raise
Run_Reports ==
    /\ rpc = "reports"
    /\ \E r \in {"reports", GATEWAY_ERROR} :
          IF r = GATEWAY_ERROR THEN Crash("reports")
          ELSE rpc' = "done" /\ crash_at' = crash_at
    /\ UNCHANGED <<raw_json_text, fixed_text, profile, shown, repair_calls>>
    /\ UNCHANGED <<frame, harness, kw, main, scan>>

NextRun ==
    \/ extract_json
    \/ Run_Start \/ Run_Gather \/ Run_Generate
    \/ Run_Parsed1 \/ Run_Except1 \/ Run_Repair \/ Run_Parsed2 \/ Run_Except2
    \/ Run_Step3 \/ Run_Keywords \/ Run_Reports

SpecRun == InitRun /\ [][NextRun]_vars

\* C9: in one run, when extract_json fails the repair is asked exactly once
\* and extract_json runs on its answer; when that fails too, or the repair
\* call itself fails, the run shows the original and the fixed text and
\* stops; the tiles and the reports are reached only with a profile that
\* extract_json returned, and the escalation never ends in a crash.
C9_EscalationContained ==
    /\ repair_calls <= 1
    /\ rpc = "extract2" => repair_calls = 1
    /\ rpc \in {"step3", "keywords", "reports", "done"} =>
          profile.st = "return" /\ profile = result
    /\ (rpc = "stopped" /\ repair_calls = 1) =>
          /\ Shown("code", raw_json_text) \in Range(shown)
          /\ Shown("code", fixed_text) \in Range(shown)
    /\ crash_at # "repair"

(***************************************************************************)
(* SpecUtil: generate_company_profile (src/main.py) hands the response     *)
(* text to extract_json_from_text (src/utils.py)                           *)
(***************************************************************************)

\* a response holds at most this many JSON objects one after another
MaxObjects == 2

\* objects: flat ones, one with a nested object, one with "}" in a string
UtilObjects ==
    { "{\"a\": 1}", "{}", "{\"a\": [1, 2]}", "{\"a\": {\"b\": 1}}", "{\"a\": \"}\"}" }

RECURSIVE ObjectSeqs(_)
\* <<objects, text>> for n objects written one after another
ObjectSeqs(n) ==
    IF n = 1 THEN {<< <<o>>, o >> : o \in UtilObjects}
    ELSE {<< Append(p[1], o), p[2] \o sep \o o >> :
            p \in ObjectSeqs(n - 1), sep \in {"", "\n", " "}, o \in UtilObjects}

UtilInputs ==
    {[kind |-> "objects", objects |-> p[1], text |-> p[2]] :
        p \in UNION {ObjectSeqs(n) : n \in 1..MaxObjects}}
    \cup {[kind |-> "plain", objects |-> <<>>, text |-> t] :
            t \in {"", NO_TEXT, "no json", "^^^json\n{\"a\": 1}\n^^^", "{\"a\": 1,}"}}

InitUtil ==
    /\ m_pc = "call"
    /\ m_input \in UtilInputs
    /\ m_text = ""
    /\ m_out = NoResult
    /\ FrameIdle
    /\ HarnessIdle
    /\ RunIdle
    /\ KwIdle
    /\ scan = [ScanStart("") EXCEPT !.pc = "idle"]

\* try: resp = client.models.generate_content(...); text = resp.text
M_Try ==
    /\ m_pc = "call"
    /\ \E r \in {m_input.text, GATEWAY_ERROR} :
          IF r = GATEWAY_ERROR THEN m_pc' = "fallback" /\ m_text' = m_text
          ELSE m_pc' = "extract" /\ m_text' = r
    /\ UNCHANGED <<m_input, m_out>>
    /\ UNCHANGED <<frame, harness, run, kw, scan>>

\* except: the call without the search tool; an error here leaves the function
M_Fallback ==
    /\ m_pc = "fallback"
    /\ \E r \in {m_input.text, GATEWAY_ERROR} :
          IF r = GATEWAY_ERROR
          THEN m_pc' = "raised" /\ m_text' = m_text /\ m_out' = Raise("GatewayError", "")
          ELSE m_pc' = "extract" /\ m_text' = r /\ m_out' = m_out
    /\ UNCHANGED m_input
    /\ UNCHANGED <<frame, harness, run, kw, scan>>

\* return extract_json_from_text(text); a response without text is falsy
\* like the empty string
M_Extract ==
    /\ m_pc = "extract"
    /\ m_out' = extract_json_from_text(IF m_text = NO_TEXT THEN "" ELSE m_text)
    /\ m_pc' = (IF m_out'.st = "return" THEN "returned"
                ELSE IF m_out'.st = "raise" THEN "raised" ELSE "unmodelled")
    /\ UNCHANGED <<m_input, m_text>>
    /\ UNCHANGED <<frame, harness, run, kw, scan>>

NextUtil == M_Try \/ M_Fallback \/ M_Extract

SpecUtil == InitUtil /\ [][NextUtil]_vars

\* every decoder result in these runs is one the model has a notation for
ModelCoversResponses == m_pc # "unmodelled"

\* C10: when the response holds several valid JSON objects one after
\* another, extract_json_from_text returns the parse of the first complete
\* object and ignores the rest.
C10_FirstObject ==
    (m_input.kind = "objects" /\ Len(m_input.objects) >= 2 /\ m_pc \in {"returned", "raised"}
        /\ m_out # Raise("GatewayError", ""))
        => m_out = Return(Loads(m_input.objects[1]).val)

(***************************************************************************)
(* SpecScan: _escape_inner_quotes_heuristic run statement by statement     *)
(* (src/app.py), one action per branch of its while loop                   *)
(***************************************************************************)

\* texts of at most this many characters are all scanned
MaxScan == 4

\* the call is entered with one of: every text of at most MaxScan characters
\* over the quote, the backslash, the three closers, a colon-free ordinary
\* character and a space; the two texts the repair is documented with
InitScan ==
    /\ \E t \in {Concat(f) : f \in UNION {[1..k -> {"\"", "\\", ",", "}", "]", "a", " "}] : k \in 0..MaxScan}}
                \cup {STRAY_QUOTES, ENDS_RIGHT_HERE, "[\"a \"b\" \n ]", "\"a\\\" \"b\" : \"c\"\t}"} :
          scan = ScanStart(t)
    /\ FrameIdle
    /\ HarnessIdle
    /\ RunIdle
    /\ KwIdle
    /\ MainIdle

\* if esc: out.append(ch); esc = False; i += 1; continue
Scan_Escaped ==
    /\ scan.pc = "loop"
    /\ scan.i < scan.n
    /\ scan.esc
    /\ scan' = [scan EXCEPT !.out = Append(@, At(scan.s, scan.i)),
                            !.esc = FALSE,
                            !.i = @ + 1]
    /\ UNCHANGED <<frame, harness, run, kw, main>>

\* if ch == "\\": out.append(ch); esc = True; i += 1; continue
Scan_Backslash ==
    /\ scan.pc = "loop"
    /\ scan.i < scan.n
    /\ ~scan.esc
    /\ At(scan.s, scan.i) = "\\"
    /\ scan' = [scan EXCEPT !.out = Append(@, "\\"),
                            !.esc = TRUE,
                            !.i = @ + 1]
    /\ UNCHANGED <<frame, harness, run, kw, main>>

\* if ch == '"': a quote outside a string opens one; a quote inside a string
\* closes it or is escaped, by the next non-space character; i += 1; continue
Scan_Quote ==
    /\ scan.pc = "loop"
    /\ scan.i < scan.n
    /\ ~scan.esc
    /\ At(scan.s, scan.i) = "\""
    /\ IF ~scan.in_str
       THEN scan' = [scan EXCEPT !.in_str = TRUE,
                                 !.out = Append(@, "\""),
                                 !.i = @ + 1]
       ELSE LET q == InnerQuote(scan.s, scan.i)
            IN  scan' = [scan EXCEPT !.in_str = q.in_str,
                                     !.out = Append(@, q.out),
                                     !.i = @ + 1]
    /\ UNCHANGED <<frame, harness, run, kw, main>>

\* out.append(ch); i += 1
Scan_Copy ==
    /\ scan.pc = "loop"
    /\ scan.i < scan.n
    /\ ~scan.esc
    /\ At(scan.s, scan.i) \notin {"\\", "\""}
    /\ scan' = [scan EXCEPT !.out = Append(@, At(scan.s, scan.i)),
                            !.i = @ + 1]
    /\ UNCHANGED <<frame, harness, run, kw, main>>

\* the loop condition i < n fails: return "".join(out)
Scan_Return ==
    /\ scan.pc = "loop"
    /\ scan.i >= scan.n
    /\ scan' = [scan EXCEPT !.ret = Concat(scan.out), !.pc = "done"]
    /\ UNCHANGED <<frame, harness, run, kw, main>>

NextScan == Scan_Escaped \/ Scan_Backslash \/ Scan_Quote \/ Scan_Copy \/ Scan_Return

\* the loop is sequential code: a statement that can run does run
SpecScan == InitScan /\ [][NextScan]_vars /\ WF_vars(NextScan)

\* the statement-by-statement scan returns what the operator that
\* extract_json applies computes
ScanAgrees ==
    scan.pc = "done" => scan.ret = escape_inner_quotes_heuristic(scan.s)

\* the scan is at a double quote inside a string literal that the escape
\* flag does not consume
AtInnerQuote ==
    /\ scan.pc = "loop"
    /\ scan.i < scan.n
    /\ ~scan.esc
    /\ scan.in_str
    /\ At(scan.s, scan.i) = "\""

\* C11: every double quote met inside a string literal and not consumed by
\* the escape flag is classified by the next non-whitespace character after
\* it: when that is ',', '}' or ']' the quote is copied through unchanged and
\* the scan leaves the in-string state; otherwise, the end of the text
\* included, an escaped quote (backslash + quote) is emitted and the scan
\* stays in the in-string state.  In particular the closing quote of
\* {"a": "ends right here"} is not escaped.
C11_QuoteClassified ==
    /\ [][AtInnerQuote =>
            IF next_non_space(scan.s, scan.i + 1) \in {",", "}", "]"}
            THEN /\ scan'.out = Append(scan.out, "\"")
                 /\ ~scan'.in_str
                 /\ scan'.i = scan.i + 1
            ELSE /\ scan'.out = Append(scan.out, "\\\"")
                 /\ scan'.in_str
                 /\ scan'.i = scan.i + 1]_vars
    /\ []((scan.pc = "done" /\ scan.s = ENDS_RIGHT_HERE)
            => Slice(scan.ret, Len(scan.ret) - 3, Len(scan.ret)) = "e\"}")

\* the scan of {"a": "ends right here"} has returned: the quotes before ':'
\* and before 'e' were escaped, the one before '}' was not
C11_Witness ==
    /\ scan.pc = "done"
    /\ scan.s = ENDS_RIGHT_HERE
    /\ scan.ret = "{\"a\\\": \\\"ends right here\"}"

\* text s with one backslash put immediately before each of its characters
\* whose index is in P
WithBackslashes(s, P) ==
    Concat([k \in 1..Len(s) |->
               IF (k - 1) \in P THEN "\\" \o At(s, k - 1) ELSE At(s, k - 1)])

\* out is s with zero or more single backslashes inserted, each immediately
\* before a double quote of s, and nothing else dropped, changed or moved
InsertOnly(s, o) ==
    \E P \in SUBSET {k \in 0..(Len(s) - 1) : At(s, k) = "\""} :
        o = WithBackslashes(s, P)

\* C12: for every input string the heuristic terminates, its output is the
\* input with zero or more single backslashes inserted, each immediately
\* before a double quote of the input (no input character dropped, changed
\* or reordered), and applying the heuristic to its own output returns that
\* output unchanged.
C12_InsertOnlyIdempotent ==
    /\ [](scan.pc = "done" =>
            /\ InsertOnly(scan.s, scan.ret)
            /\ escape_inner_quotes_heuristic(scan.ret) = scan.ret)
    /\ <>(scan.pc = "done")

\* the scan of the stray-quotes example has returned: backslashes were
\* inserted, and a second application leaves the text as it is
C12_Witness ==
    /\ scan.pc = "done"
    /\ scan.s = STRAY_QUOTES
    /\ scan.ret = "{\"a\\\": \\\"he said \\\"hi\\\" to me\", \"b\\\": 1}"
    /\ escape_inner_quotes_heuristic(scan.ret) = scan.ret

=============================================================================
